---- MODULE Spec2Model ----
(***************************************************************************)
(* Model of protocol/utility_contracts/contract_deployer.py:               *)
(* ContractDeployer (bytecode hashing, deployer calldata, L2 address       *)
(* derivation, receipt extraction) and the module-level ABI cache.         *)
(*                                                                         *)
(* Byte strings are sequences of chunks.  A chunk is a run of literal      *)
(* bytes, a slice of a hash digest, or a slice of an opaque content        *)
(* (bytecode identified by id and length).  Digests are symbolic: two      *)
(* digests are equal iff their hash function and preimage are equal.       *)
(* Optional[T] is a sequence of at most one element: None == <<>>.         *)
(***************************************************************************)
EXTENDS Integers, Sequences, FiniteSets, TLC

\* ------------------------------------------------------------------ bounds
MaxExtraWords == 1
MaxEntries == 2
NumThreads == 2

\* ------------------------------------------------------------- byte strings
Min(a, b) == IF a < b THEN a ELSE b

Lit(v) == IF v = <<>> THEN <<>>
          ELSE << [kind |-> "lit", v |-> v, of |-> <<>>, lo |-> 0, hi |-> Len(v)] >>

Raw(id, n) == IF n = 0 THEN <<>>
              ELSE << [kind |-> "raw", v |-> <<id>>, of |-> <<>>, lo |-> 0, hi |-> n] >>

Digest(h, bs) == << [kind |-> h, v |-> <<>>, of |-> bs, lo |-> 0, hi |-> 32] >>

Zeros(n) == Lit([i \in 1..n |-> 0])

CLen(c) == c.hi - c.lo

RECURSIVE BLen(_)
BLen(bs) == IF bs = <<>> THEN 0 ELSE CLen(Head(bs)) + BLen(Tail(bs))

\* bytes + bytes; adjacent literal runs are merged so that equal byte strings
\* have equal representations
Concat(a, b) ==
    IF a = <<>> THEN b
    ELSE IF b = <<>> THEN a
    ELSE LET x == a[Len(a)]
             y == Head(b)
         IN IF x.kind = "lit" /\ y.kind = "lit"
            THEN SubSeq(a, 1, Len(a) - 1) \o Lit(x.v \o y.v) \o Tail(b)
            ELSE a \o b

CSlice(c, a, b) ==
    IF c.kind = "lit" THEN Lit(SubSeq(c.v, a + 1, b))
    ELSE << [c EXCEPT !.lo = c.lo + a, !.hi = c.lo + b] >>

\* bs[a:b]
RECURSIVE Slice(_, _, _)
Slice(bs, a, b) ==
    IF bs = <<>> \/ b <= a THEN <<>>
    ELSE LET c == Head(bs)
             n == CLen(c)
         IN IF a >= n THEN Slice(Tail(bs), a - n, b - n)
            ELSE Concat(CSlice(c, a, Min(b, n)), Slice(Tail(bs), 0, b - n))

sha256(bs) == Digest("sha256", bs)
keccak(bs) == Digest("keccak", bs)

\* ------------------------------------------------------- Python primitives
None == <<>>
Some(x) == <<x>>

Return(v) == [status |-> "return", value |-> v]
Raise(e, m) == [status |-> "raise", exc |-> e, msg |-> m]

\* int.to_bytes(2, byteorder='big')
to_bytes_wrap(n) == Return(Lit(<<(n \div 256) % 256, n % 256>>))
to_bytes_2_big(n) ==
    IF n >= 65536 THEN Raise("OverflowError", "int too big to convert")
    ELSE Return(Lit(<<n \div 256, n % 256>>))

\* ---------------------------------------------------------- class constants
DEFAULT_SALT == Zeros(32)
CREATE_FUNC == "create"
CREATE2_FUNC == "create2"
MAX_BYTE_CODE_LENGTH == 65536
EMPTY_BYTES == <<>>
\* utf-8 of "zksyncCreate" / "zksyncCreate2"
CREATE_PREFIX == keccak(Lit(<<122, 107, 115, 121, 110, 99, 67, 114, 101, 97, 116, 101>>))
CREATE2_PREFIX == keccak(Lit(<<122, 107, 115, 121, 110, 99, 67, 114, 101, 97, 116, 101, 50>>))

SaltMsg == "Salt data must be 32 length"
BytecodeMsg == "ContractDeployer._hash_byte_code, bytecode length must be less than 2^16"

\* -------------------------------------------------------- _hash_byte_code
hash_byte_code_no_prefix(bytecode) == Return(sha256(bytecode))
hash_byte_code(bytecode) ==
    LET bytecode_len == BLen(bytecode) \div 32
    IN IF bytecode_len > MAX_BYTE_CODE_LENGTH
       THEN Raise("OverflowError", BytecodeMsg)
       ELSE LET byte_code_hash == sha256(bytecode)
                prefix == to_bytes_2_big(bytecode_len)
            IN IF prefix.status = "raise" THEN prefix
               ELSE Return(Concat(prefix.value, Slice(byte_code_hash, 2, 32)))

\* ------------------------------------------------ core.utils collaborators
\* a hex string is its sequence of hex digits (the "0x" prefix is implied)
get_data(hexstr) ==
    Lit([i \in 1..(Len(hexstr) \div 2) |-> 16 * hexstr[2 * i - 1] + hexstr[2 * i]])

pad_front_bytes(bs, needed_length) ==
    IF BLen(bs) >= needed_length THEN bs
    ELSE Concat(Zeros(needed_length - BLen(bs)), bs)

RECURSIVE BigEndian(_)
BigEndian(n) == IF n = 0 THEN <<>> ELSE BigEndian(n \div 256) \o <<n % 256>>

int_to_bytes(n) == Lit(BigEndian(n))

\* --------------------------------------------------- external collaborators
\* Contract.encodeABI(fn_name, args): the encoding is the library's; the model
\* keeps what it was asked to encode
encodeABI(contract, fn_name, args) == [abi |-> contract.abi, fn_name |-> fn_name, args |-> args]

\* "0x" + address.hex(), then Web3.toChecksumAddress
toChecksumAddress(address) == [checksum |-> [prefix |-> "0x", hex |-> address]]

\* web3.eth.contract(address=None, abi=abi)
contract(abi) == [abi |-> abi]

\* content of contract_abi/IContractDeployer.json as parsed by json.load
IContractDeployerJson == "IContractDeployer.json"

\* ------------------------------------------------------------ the operations
\* every operation yields its outcome and the encoder invocations it made
Outcome(r, enc) == [result |-> r, encoded |-> enc]

encode_create2_hash_first(self, bytecode, call_data, salt) ==
    LET s == IF salt = None THEN DEFAULT_SALT ELSE salt[1]
        cd == IF call_data = None THEN EMPTY_BYTES ELSE call_data[1]
        bytecode_hash == hash_byte_code(bytecode)
    IN IF bytecode_hash.status = "raise"
       THEN Outcome(bytecode_hash, <<>>)
       ELSE IF BLen(s) # 32
       THEN Outcome(Raise("OverflowError", SaltMsg), <<>>)
       ELSE LET args == <<s, bytecode_hash.value, 0, cd>>
                encoded_function == encodeABI(self.contract_deployer, CREATE2_FUNC, args)
            IN Outcome(Return(encoded_function), <<encoded_function>>)

encode_create2(self, bytecode, call_data, salt) ==
    LET s == IF salt = None THEN DEFAULT_SALT ELSE salt[1]
        cd == IF call_data = None THEN EMPTY_BYTES ELSE call_data[1]
    IN IF BLen(s) # 32
       THEN Outcome(Raise("OverflowError", SaltMsg), <<>>)
       ELSE LET bytecode_hash == hash_byte_code(bytecode)
            IN IF bytecode_hash.status = "raise"
               THEN Outcome(bytecode_hash, <<>>)
               ELSE LET args == <<s, bytecode_hash.value, 0, cd>>
                        encoded_function == encodeABI(self.contract_deployer, CREATE2_FUNC, args)
                    IN Outcome(Return(encoded_function), <<encoded_function>>)

encode_create_salt_max(self, bytecode, call_data, salt_data) ==
    LET s == IF salt_data = None THEN DEFAULT_SALT ELSE salt_data[1]
        cd == IF call_data = None THEN EMPTY_BYTES ELSE call_data[1]
    IN IF BLen(s) > 32
       THEN Outcome(Raise("OverflowError", SaltMsg), <<>>)
       ELSE LET bytecode_hash == hash_byte_code(bytecode)
            IN IF bytecode_hash.status = "raise"
               THEN Outcome(bytecode_hash, <<>>)
               ELSE LET args == <<s, bytecode_hash.value, 0, cd>>
                        encoded_function == encodeABI(self.contract_deployer, CREATE_FUNC, args)
                    IN Outcome(Return(encoded_function), <<encoded_function>>)

encode_create_swapped(self, bytecode, call_data, salt_data) ==
    LET s == IF salt_data = None THEN DEFAULT_SALT ELSE salt_data[1]
        cd == IF call_data = None THEN EMPTY_BYTES ELSE call_data[1]
    IN IF BLen(s) # 32
       THEN Outcome(Raise("OverflowError", SaltMsg), <<>>)
       ELSE LET bytecode_hash == hash_byte_code(bytecode)
            IN IF bytecode_hash.status = "raise"
               THEN Outcome(bytecode_hash, <<>>)
               ELSE LET args == <<bytecode_hash.value, s, 0, cd>>
                        encoded_function == encodeABI(self.contract_deployer, CREATE_FUNC, args)
                    IN Outcome(Return(encoded_function), <<encoded_function>>)

encode_create(self, bytecode, call_data, salt_data) ==
    LET s == IF salt_data = None THEN DEFAULT_SALT ELSE salt_data[1]
        cd == IF call_data = None THEN EMPTY_BYTES ELSE call_data[1]
    IN IF BLen(s) # 32
       THEN Outcome(Raise("OverflowError", SaltMsg), <<>>)
       ELSE LET bytecode_hash == hash_byte_code(bytecode)
            IN IF bytecode_hash.status = "raise"
               THEN Outcome(bytecode_hash, <<>>)
               ELSE LET args == <<s, bytecode_hash.value, 0, cd>>
                        encoded_function == encodeABI(self.contract_deployer, CREATE_FUNC, args)
                    IN Outcome(Return(encoded_function), <<encoded_function>>)

compute_l2_create_address(sender, nonce) ==
    LET sender_bytes == pad_front_bytes(get_data(sender), 32)
        nonce_bytes == pad_front_bytes(int_to_bytes(nonce), 32)
        result == Concat(Concat(CREATE_PREFIX, sender_bytes), nonce_bytes)
        sha_result == keccak(result)
        address == Slice(sha_result, 12, 32)
    IN Outcome(Return(toChecksumAddress(address)), <<>>)

compute_l2_create2_address_no_salt(sender, bytecode, constructor, salt) ==
    IF BLen(salt) # 32
    THEN Outcome(Raise("OverflowError", SaltMsg), <<>>)
    ELSE LET sender_bytes == pad_front_bytes(get_data(sender), 32)
             bytecode_hash == hash_byte_code(bytecode)
         IN IF bytecode_hash.status = "raise"
            THEN Outcome(bytecode_hash, <<>>)
            ELSE LET ctor_hash == keccak(constructor)
                     result == Concat(Concat(Concat(CREATE2_PREFIX, sender_bytes),
                                   bytecode_hash.value), ctor_hash)
                     sha_result == keccak(result)
                     address == Slice(sha_result, 12, 32)
                 IN Outcome(Return(toChecksumAddress(address)), <<>>)

compute_l2_create2_address(sender, bytecode, constructor, salt) ==
    IF BLen(salt) # 32
    THEN Outcome(Raise("OverflowError", SaltMsg), <<>>)
    ELSE LET sender_bytes == pad_front_bytes(get_data(sender), 32)
             bytecode_hash == hash_byte_code(bytecode)
         IN IF bytecode_hash.status = "raise"
            THEN Outcome(bytecode_hash, <<>>)
            ELSE LET ctor_hash == keccak(constructor)
                     result == Concat(Concat(Concat(Concat(CREATE2_PREFIX, sender_bytes),
                                   salt), bytecode_hash.value), ctor_hash)
                     sha_result == keccak(result)
                     address == Slice(sha_result, 12, 32)
                 IN Outcome(Return(toChecksumAddress(address)), <<>>)

extract_contract_address_first(receipt) ==
    IF Len(receipt) < 1
    THEN Outcome(Raise("IndexError", "tuple index out of range"), <<>>)
    ELSE LET entry == receipt[1].args
         IN IF "contractAddress" \notin DOMAIN entry
            THEN Outcome(Raise("KeyError", "contractAddress"), <<>>)
            ELSE Outcome(Return(entry["contractAddress"]), <<>>)

\* receipt: the entries processReceipt decodes from it, in order
extract_contract_address(receipt) ==
    IF Len(receipt) < 2
    THEN Outcome(Raise("IndexError", "tuple index out of range"), <<>>)
    ELSE LET entry == receipt[2].args
         IN IF "contractAddress" \notin DOMAIN entry
            THEN Outcome(Raise("KeyError", "contractAddress"), <<>>)
            ELSE Outcome(Return(entry["contractAddress"]), <<>>)

\* _icontract_deployer_abi_default, run without interruption: the cache
\* afterwards, the value returned and the number of reads of the ABI file
icontract_deployer_abi_default_reload(cache) ==
    [cache |-> Some(IContractDeployerJson), ret |-> IContractDeployerJson, reads |-> 1]
icontract_deployer_abi_default(cache) ==
    IF cache = None
    THEN [cache |-> Some(IContractDeployerJson), ret |-> IContractDeployerJson, reads |-> 1]
    ELSE [cache |-> cache, ret |-> cache[1], reads |-> 0]

\* ---------------------------------------------------------------- inputs
\* (words, extra bytes): empty, one word and a rest, 256 words, the largest
\* accepted size, and the first sizes past the 16-bit word count
Sizes == {<<0, 0>>, <<1, 31>>, <<256, 0>>, <<MAX_BYTE_CODE_LENGTH - 1, 31>>} \cup
         {<<w, 0>> : w \in MAX_BYTE_CODE_LENGTH .. MAX_BYTE_CODE_LENGTH + MaxExtraWords}
\* one content per size, and a second content of 63 bytes
Bytecodes == {Raw(1, 32 * z[1] + z[2]) : z \in Sizes} \cup {Raw(2, 63)}

Salts == {Zeros(32), Lit([i \in 1..32 |-> IF i = 32 THEN 1 ELSE 0]), Zeros(31), Zeros(33)}
OptSalts == {None} \cup {Some(s) : s \in Salts}

CallDatas == {EMPTY_BYTES, Lit(<<1, 2, 3>>)}
OptCallDatas == {None} \cup {Some(c) : c \in CallDatas}

\* 20-byte addresses as 40 hex digits
Senders == {[i \in 1..40 |-> IF i = 40 THEN d ELSE 0] : d \in {1, 10}}
Nonces == {0, 1, 256}

OptAbis == {None, Some("custom_abi")}

Entries == {[args |-> [contractAddress |-> a, bytecodeHash |-> "0xh"]] : a \in {"0xA", "0xB"}}
           \cup {[args |-> [bytecodeHash |-> "0xh"]]}
RECURSIVE SeqsUpTo(_, _)
SeqsUpTo(S, n) ==
    IF n = 0 THEN {<<>>}
    ELSE LET shorter == SeqsUpTo(S, n - 1)
         IN shorter \cup {Append(q, e) : q \in {x \in shorter : Len(x) = n - 1}, e \in S}
Receipts == SeqsUpTo(Entries, MaxEntries)

\* ------------------------------------------------------------------ state
VARIABLES
    icontract_deployer_abi_cache,  \* the module global: None or Some(abi)
    fileReads,                     \* how often IContractDeployer.json was opened
    deployers,                     \* the ContractDeployer objects constructed
    last,                          \* the last call: operation, inputs, outcome
    pairIn,                        \* inputs of two create2 address derivations
    pairOut,                       \* their outcomes, in call order
    threads,                       \* per thread: position, locals, outcome
    readers,                       \* threads that have read the cache global
    writers                        \* threads that have written the cache global

vars == <<icontract_deployer_abi_cache, fileReads, deployers, last,
          pairIn, pairOut, threads, readers, writers>>
pairVars == <<pairIn, pairOut>>
threadVars == <<threads, readers, writers>>

Threads == 1..NumThreads

NoSelf == [contract_deployer |-> contract("unset")]
NoCall == [op |-> "none", bytecode |-> <<>>]
IdleThread == [pc |-> "start", abi |-> None, data |-> "unset", ret |-> "unset",
               self |-> NoSelf, call |-> NoCall, result |-> Return(<<>>)]

\* loads: how often the call opened the ABI file
Call(op, in, out, loads) ==
    [op |-> op, in |-> in, result |-> out.result, encoded |-> out.encoded, loads |-> loads]

Init ==
    /\ icontract_deployer_abi_cache = None
    /\ fileReads = 0
    /\ deployers = {}
    /\ last = Call("none", <<>>, Outcome(Return(<<>>), <<>>), 0)
    /\ pairIn = <<>>
    /\ pairOut = <<>>
    /\ threads = [t \in Threads |-> IdleThread]
    /\ readers = {}
    /\ writers = {}

\* ContractDeployer.__init__(web3, abi)
Construct(abi) ==
    /\ IF abi = None
       THEN LET d == icontract_deployer_abi_default(icontract_deployer_abi_cache)
                self == [contract_deployer |-> contract(d.ret)]
            IN /\ icontract_deployer_abi_cache' = d.cache
               /\ fileReads' = fileReads + d.reads
               /\ deployers' = deployers \cup {self}
               /\ last' = Call("__init__", [abi |-> abi], Outcome(Return(self), <<>>), d.reads)
       ELSE LET self == [contract_deployer |-> contract(abi[1])]
            IN /\ deployers' = deployers \cup {self}
               /\ last' = Call("__init__", [abi |-> abi], Outcome(Return(self), <<>>), 0)
               /\ UNCHANGED <<icontract_deployer_abi_cache, fileReads>>
    /\ UNCHANGED <<pairVars, threadVars>>

HashByteCode(bytecode) ==
    /\ last' = Call("_hash_byte_code", [bytecode |-> bytecode],
                    Outcome(hash_byte_code(bytecode), <<>>), 0)
    /\ UNCHANGED <<icontract_deployer_abi_cache, fileReads, deployers, pairVars, threadVars>>

EncodeCreate2(self, bytecode, call_data, salt) ==
    /\ last' = Call("encode_create2",
                    [self |-> self, bytecode |-> bytecode, call_data |-> call_data, salt |-> salt],
                    encode_create2(self, bytecode, call_data, salt), 0)
    /\ UNCHANGED <<icontract_deployer_abi_cache, fileReads, deployers, pairVars, threadVars>>

EncodeCreate(self, bytecode, call_data, salt_data) ==
    /\ last' = Call("encode_create",
                    [self |-> self, bytecode |-> bytecode, call_data |-> call_data, salt |-> salt_data],
                    encode_create(self, bytecode, call_data, salt_data), 0)
    /\ UNCHANGED <<icontract_deployer_abi_cache, fileReads, deployers, pairVars, threadVars>>

ComputeL2CreateAddress(sender, nonce) ==
    /\ last' = Call("compute_l2_create_address", [sender |-> sender, nonce |-> nonce],
                    compute_l2_create_address(sender, nonce), 0)
    /\ UNCHANGED <<icontract_deployer_abi_cache, fileReads, deployers, pairVars, threadVars>>

ComputeL2Create2Address(sender, bytecode, constructor, salt) ==
    /\ last' = Call("compute_l2_create2_address",
                    [sender |-> sender, bytecode |-> bytecode, constructor |-> constructor,
                     salt |-> salt],
                    compute_l2_create2_address(sender, bytecode, constructor, salt), 0)
    /\ UNCHANGED <<icontract_deployer_abi_cache, fileReads, deployers, pairVars, threadVars>>

ExtractContractAddress(receipt) ==
    /\ last' = Call("extract_contract_address", [receipt |-> receipt],
                    extract_contract_address(receipt), 0)
    /\ UNCHANGED <<icontract_deployer_abi_cache, fileReads, deployers, pairVars, threadVars>>

\* the methods are called on a constructed object
Next ==
    \/ \E abi \in OptAbis : Construct(abi)
    \/ \E self \in deployers, b \in Bytecodes, c \in OptCallDatas, s \in OptSalts :
            EncodeCreate2(self, b, c, s)
    \/ \E self \in deployers, b \in Bytecodes, c \in OptCallDatas, s \in OptSalts :
            EncodeCreate(self, b, c, s)
    \/ \E self \in deployers, b \in Bytecodes : HashByteCode(b)
    \/ \E self \in deployers, sender \in Senders, b \in Bytecodes, c \in CallDatas, s \in Salts :
            ComputeL2Create2Address(sender, b, c, s)
    \/ \E self \in deployers, sender \in Senders, n \in Nonces :
            ComputeL2CreateAddress(sender, n)
    \/ \E self \in deployers, r \in Receipts : ExtractContractAddress(r)

Spec == Init /\ [][Next]_vars

\* ------------------------------------------- two derivations side by side
PairInputs == [sender : Senders, bytecode : Bytecodes, constructor : CallDatas,
               salt1 : Salts, salt2 : Salts]

InitPair ==
    /\ icontract_deployer_abi_cache = None
    /\ fileReads = 0
    /\ deployers = {}
    /\ last = Call("none", <<>>, Outcome(Return(<<>>), <<>>), 0)
    /\ pairIn \in PairInputs
    /\ pairOut = <<>>
    /\ threads = [t \in Threads |-> IdleThread]
    /\ readers = {}
    /\ writers = {}

\* compute_l2_create2_address called with the first, then the second salt
PairCall ==
    /\ Len(pairOut) < 2
    /\ LET salt == IF Len(pairOut) = 0 THEN pairIn.salt1 ELSE pairIn.salt2
       IN pairOut' = Append(pairOut,
                compute_l2_create2_address(pairIn.sender, pairIn.bytecode,
                                           pairIn.constructor, salt))
    /\ UNCHANGED <<icontract_deployer_abi_cache, fileReads, deployers, last, pairIn, threadVars>>

NextPair == PairCall

SpecPair == InitPair /\ [][NextPair]_vars

\* ------------------------------------------------------ concurrent callers
\* Each thread constructs a ContractDeployer and then encodes one call with
\* it.  A step is one access to the cache global or to the ABI file; the
\* interpreter may switch threads between any two of them.
InitThreads ==
    /\ icontract_deployer_abi_cache = None
    /\ fileReads = 0
    /\ deployers = {}
    /\ last = Call("none", <<>>, Outcome(Return(<<>>), <<>>), 0)
    /\ pairIn = <<>>
    /\ pairOut = <<>>
    /\ threads = [t \in Threads |-> IdleThread]
    /\ readers = {}
    /\ writers = {}

seqVars == <<deployers, last, pairIn, pairOut>>

\* __init__: `if abi is None`
TInit(t, abi) ==
    /\ threads[t].pc = "start"
    /\ threads' = [threads EXCEPT ![t].abi = abi,
                                  ![t].ret = IF abi = None THEN "unset" ELSE abi[1],
                                  ![t].pc = IF abi = None THEN "check" ELSE "contract"]
    /\ UNCHANGED <<icontract_deployer_abi_cache, fileReads, readers, writers, seqVars>>

\* _icontract_deployer_abi_default: `if icontract_deployer_abi_cache is None`
TCheck(t) ==
    /\ threads[t].pc = "check"
    /\ readers' = readers \cup {t}
    /\ threads' = [threads EXCEPT ![t].pc =
                        IF icontract_deployer_abi_cache = None THEN "load" ELSE "return"]
    /\ UNCHANGED <<icontract_deployer_abi_cache, fileReads, writers, seqVars>>

\* `data = json.load(json_file)`
TLoad(t) ==
    /\ threads[t].pc = "load"
    /\ fileReads' = fileReads + 1
    /\ threads' = [threads EXCEPT ![t].data = IContractDeployerJson, ![t].pc = "store"]
    /\ UNCHANGED <<icontract_deployer_abi_cache, readers, writers, seqVars>>

\* `icontract_deployer_abi_cache = data`
TStore(t) ==
    /\ threads[t].pc = "store"
    /\ icontract_deployer_abi_cache' = Some(threads[t].data)
    /\ writers' = writers \cup {t}
    /\ threads' = [threads EXCEPT ![t].pc = "return"]
    /\ UNCHANGED <<fileReads, readers, seqVars>>

\* `return icontract_deployer_abi_cache`
returned_abi_local(cache, data) == data
returned_abi(cache, data) == cache[1]

TReturn(t) ==
    /\ threads[t].pc = "return"
    /\ readers' = readers \cup {t}
    /\ threads' = [threads EXCEPT
                      ![t].ret = returned_abi(icontract_deployer_abi_cache, threads[t].data),
                      ![t].pc = "contract"]
    /\ UNCHANGED <<icontract_deployer_abi_cache, fileReads, writers, seqVars>>

\* `self.contract_deployer = self.web3.eth.contract(address=None, abi=abi)`
TContract(t) ==
    /\ threads[t].pc = "contract"
    /\ threads' = [threads EXCEPT ![t].self = [contract_deployer |-> contract(threads[t].ret)],
                                  ![t].pc = "ready"]
    /\ UNCHANGED <<icontract_deployer_abi_cache, fileReads, readers, writers, seqVars>>

\* encode_create / encode_create2 on the thread's own object
TEncode(t, op, bytecode) ==
    /\ threads[t].pc = "ready"
    /\ threads' = [threads EXCEPT
                      ![t].call = [op |-> op, bytecode |-> bytecode],
                      ![t].result = IF op = "encode_create"
                                    THEN encode_create(threads[t].self, bytecode, None, None).result
                                    ELSE encode_create2(threads[t].self, bytecode, None, None).result,
                      ![t].pc = "done"]
    /\ UNCHANGED <<icontract_deployer_abi_cache, fileReads, readers, writers, seqVars>>

NextThreads ==
    \E t \in Threads :
        \/ \E abi \in OptAbis : TInit(t, abi)
        \/ TCheck(t)
        \/ TLoad(t)
        \/ TStore(t)
        \/ TReturn(t)
        \/ TContract(t)
        \/ \E op \in {"encode_create", "encode_create2"}, b \in Bytecodes : TEncode(t, op, b)

SpecThreads == InitThreads /\ [][NextThreads]_vars

\* ------------------------------------------------------------ properties
EncodeOps == {"encode_create", "encode_create2"}
SaltOps == EncodeOps \cup {"compute_l2_create2_address"}

WordCount(bytecode) == BLen(bytecode) \div 32

\* the salt a call supplied: None when omitted
SuppliedSalt(c) == IF c.op \in EncodeOps THEN c.in.salt ELSE Some(c.in.salt)

SaltError(c) == c.result.status = "raise" /\ c.result.exc = "OverflowError" /\ c.result.msg = SaltMsg

\* C1: hashing a bytecode of more than 65535 words (65536 included) raises
\* OverflowError and yields no hash
C1_TooLargeFails ==
    (last.op = "_hash_byte_code" /\ WordCount(last.in.bytecode) > 65535)
        => (last.result.status = "raise" /\ last.result.exc = "OverflowError")

C1_Witness ==
    /\ last.op = "_hash_byte_code"
    /\ WordCount(last.in.bytecode) = 65536
    /\ last.result.status = "raise"

\* C2: for a bytecode shorter than 32*65536 bytes the hash is returned, is 32
\* bytes long, starts with the word count as a big-endian 16-bit integer and
\* continues with bytes [2:32) of the SHA-256 digest of the bytecode
C2_HashFormat ==
    (last.op = "_hash_byte_code" /\ BLen(last.in.bytecode) < 32 * 65536)
        => /\ last.result.status = "return"
           /\ BLen(last.result.value) = 32
           /\ Slice(last.result.value, 0, 2) =
                Lit(<<WordCount(last.in.bytecode) \div 256, WordCount(last.in.bytecode) % 256>>)
           /\ Slice(last.result.value, 2, 32) = Slice(sha256(last.in.bytecode), 2, 32)

C2_Witness ==
    /\ last.op = "_hash_byte_code"
    /\ BLen(last.in.bytecode) = 32 + 31
    /\ last.result.status = "return"
    /\ Slice(last.result.value, 0, 2) = Lit(<<0, 1>>)

\* C3: the three salted operations raise the salt error exactly when a salt
\* was supplied whose length is not 32
C3_SaltLength ==
    last.op \in SaltOps
        => (SaltError(last) <=>
                (SuppliedSalt(last) # None /\ BLen(SuppliedSalt(last)[1]) # 32))

C3_Witness ==
    /\ last.op = "encode_create"
    /\ last.in.salt # None
    /\ BLen(last.in.salt[1]) = 31
    /\ SaltError(last)

\* C4: extraction raises IndexError for fewer than two decoded entries,
\* KeyError when the second entry lacks contractAddress, and otherwise returns
\* the contractAddress of the second entry
C4_Extract ==
    last.op = "extract_contract_address"
        => LET r == last.in.receipt
           IN IF Len(r) < 2
              THEN last.result.status = "raise" /\ last.result.exc = "IndexError"
              ELSE IF "contractAddress" \notin DOMAIN r[2].args
              THEN last.result.status = "raise" /\ last.result.exc = "KeyError"
              ELSE last.result.status = "return"
                   /\ last.result.value = r[2].args.contractAddress

C4_Witness ==
    /\ last.op = "extract_contract_address"
    /\ Len(last.in.receipt) >= 2
    /\ "contractAddress" \in DOMAIN last.in.receipt[1].args
    /\ "contractAddress" \in DOMAIN last.in.receipt[2].args
    /\ last.in.receipt[1].args.contractAddress # last.in.receipt[2].args.contractAddress
    /\ last.result.status = "return"

\* C5: with a valid bytecode and a 32-byte or omitted salt, encode_create and
\* encode_create2 call the encoder exactly once, for create resp. create2, with
\* (salt or 32 zero bytes, bytecode hash, 0, call_data or empty bytes), and
\* return what it produced
C5_EncoderCall ==
    (/\ last.op \in EncodeOps
     /\ WordCount(last.in.bytecode) <= 65535
     /\ (last.in.salt = None \/ BLen(last.in.salt[1]) = 32))
        => LET fn == IF last.op = "encode_create" THEN "create" ELSE "create2"
               salt == IF last.in.salt = None THEN Zeros(32) ELSE last.in.salt[1]
               data == IF last.in.call_data = None THEN <<>> ELSE last.in.call_data[1]
               word == WordCount(last.in.bytecode)
               hash == Concat(Lit(<<word \div 256, word % 256>>),
                              Slice(sha256(last.in.bytecode), 2, 32))
               call == [abi |-> last.in.self.contract_deployer.abi, fn_name |-> fn,
                        args |-> <<salt, hash, 0, data>>]
           IN /\ last.encoded = <<call>>
              /\ last.result = Return(call)

C5_Witness ==
    /\ last.op = "encode_create"
    /\ last.in.salt = None
    /\ last.in.call_data = None
    /\ Len(last.encoded) = 1

\* C9: the salt check comes first: with a bad salt and a too large bytecode
\* the salt error is raised, and no failing call invokes the encoder
C9_SaltCheckFirst ==
    last.op \in SaltOps
        => /\ (/\ SuppliedSalt(last) # None
               /\ BLen(SuppliedSalt(last)[1]) # 32
               /\ WordCount(last.in.bytecode) > 65535) => SaltError(last)
           /\ last.result.status = "raise" => last.encoded = <<>>

C9_Witness ==
    /\ last.op = "encode_create2"
    /\ last.in.salt # None
    /\ BLen(last.in.salt[1]) = 33
    /\ WordCount(last.in.bytecode) > 65535
    /\ SaltError(last)
    /\ last.encoded = <<>>

\* C10: the ABI file is read at most once, and only by a construction without
\* explicit abi that finds the cache unset; the cache, once set, never
\* changes; only a construction without explicit abi changes the cache
C10_LoadOnce ==
    [][/\ fileReads' <= 1
       /\ icontract_deployer_abi_cache # None
            => icontract_deployer_abi_cache' = icontract_deployer_abi_cache
       /\ (icontract_deployer_abi_cache' # icontract_deployer_abi_cache \/ fileReads' # fileReads)
            => /\ last'.op = "__init__"
               /\ last'.in.abi = None
               /\ icontract_deployer_abi_cache = None
               /\ icontract_deployer_abi_cache' = Some(IContractDeployerJson)
               /\ fileReads' = fileReads + 1]_vars

C10_Witness ==
    /\ last.op = "__init__"
    /\ last.in.abi = None
    /\ last.loads = 0
    /\ fileReads = 1
    /\ icontract_deployer_abi_cache = Some(IContractDeployerJson)

\* C6: two create2 derivations with the same sender, bytecode and constructor
\* data and 32-byte salts give the same address exactly when the salts are
\* the same
C6_SaltSensitive ==
    (/\ Len(pairOut) = 2
     /\ BLen(pairIn.salt1) = 32
     /\ BLen(pairIn.salt2) = 32
     /\ WordCount(pairIn.bytecode) <= 65535)
        => /\ pairOut[1].result.status = "return"
           /\ pairOut[2].result.status = "return"
           /\ (pairIn.salt1 = pairIn.salt2
                  <=> pairOut[1].result.value = pairOut[2].result.value)

C6_Witness ==
    /\ Len(pairOut) = 2
    /\ BLen(pairIn.salt1) = 32
    /\ BLen(pairIn.salt2) = 32
    /\ pairIn.salt1 # pairIn.salt2
    /\ pairOut[1].result.status = "return"
    /\ pairOut[2].result.status = "return"
    /\ pairOut[1].result.value # pairOut[2].result.value

\* what a thread's construction and call yield when no other thread runs
AloneSelf(abi) ==
    [contract_deployer |->
        contract(IF abi = None THEN icontract_deployer_abi_default(None).ret ELSE abi[1])]

AloneResult(abi, call) ==
    IF call.op = "encode_create"
    THEN encode_create(AloneSelf(abi), call.bytecode, None, None).result
    ELSE encode_create2(AloneSelf(abi), call.bytecode, None, None).result

ResultsAsAlone ==
    \A t \in Threads :
        threads[t].pc = "done" => threads[t].result = AloneResult(threads[t].abi, threads[t].call)

====
